---- MODULE Spec2Model ----
(***************************************************************************)
(* Model of the validator of src/neurons/__init__.py: the evaluation loop  *)
(* validator._run, the sandbox trials it runs per identity, and the        *)
(* watchdog task that shares the single asyncio event loop with it.        *)
(*                                                                         *)
(* Time is kept by relative clocks, one unit per second: hbAge is          *)
(* time.monotonic() - HEARTBEAT, wd_left is what remains of the watchdog's *)
(* asyncio.sleep, sleep_left what remains of the retry sleep.  Clocks      *)
(* saturate at MaxAge, above every value the code compares them with.      *)
(***************************************************************************)
EXTENDS Integers, Sequences, FiniteSets, TLC

(* ---------------- bounds ---------------- *)
MaxUids == 2
MaxTimeout == 5
MaxCancelUids == 1
MaxCalls == 5
MaxEvals == 2
MaxStatements == 2
MaxLocLen == 4
MaxFiles == 3
MaxKeys == 2
MaxGists == 2
MaxPosts == 2
MaxWords == 505
MaxParts == 3

(* ---------------- program constants ---------------- *)
SAMPLES == 10
RETRY_SLEEP == 5
max_retries == 30
REFRESH_INTERVAL_SECONDS == 300

\* the timeout the watchdog is run with (validator passes one value, the
\* default of watchdog); it is not shorter than the retry sleep
Timeouts == {MaxTimeout}
MaxAge == MaxTimeout + (MaxTimeout \div 3) + 1

VARIABLES
    pc,               \* position of validator._run
    SUBTENSOR,        \* module global: "None", "created", "ready"
    uids,             \* membership list of the cycle
    weights,          \* score vector of the cycle
    idx,              \* position in uids of the identity being processed
    gen_tmp_file,     \* argument handed to Container(...)
    success,          \* trials counted correct for the identity
    sample_idx,       \* trial counter of range(SAMPLES)
    exc,              \* exception in flight to the cycle handler
    sleep_left,       \* seconds left of asyncio.sleep(5)
    timeout,          \* parameter of watchdog(timeout)
    hbAge,            \* time.monotonic() - HEARTBEAT
    wd_pc,            \* position of watchdog: "sleep" or "check"
    wd_left,          \* seconds left of the watchdog's asyncio.sleep
    elapsed,          \* local of watchdog
    exit_cause,       \* "none" while the process runs, else who called os._exit
    \* history variables
    pull_result,      \* what pull_agent returned for the identity
    container_src,    \* what the open container was built from
    open_sandboxes,   \* identities whose container is entered and not exited
    nInvoked,         \* c.verify calls made for the identity
    nCorrect,         \* calls that returned a mapping with the expected verdict
    had_bad,          \* some call raised or returned no well-formed verdict
    processed,        \* identities of the cycle whose body ran to its end
    sw_calls,         \* set_weights calls made in the cycle
    busy,             \* seconds since the last cycle or identity start, retry sleep excluded
    gap_ok            \* the heartbeat has never been older than timeout/3

cycleVars == <<uids, weights, idx>>
identVars == <<gen_tmp_file, pull_result, container_src, open_sandboxes>>
trialVars == <<success, sample_idx, nInvoked, nCorrect, had_bad>>
clockVars == <<hbAge, busy, gap_ok, sleep_left>>
wdVars == <<timeout, wd_pc, wd_left, elapsed>>
loopVars == <<pc, SUBTENSOR, exc, processed, sw_calls, cycleVars, identVars,
              trialVars>>

\* the unit that is modelled on its own in a specification of its own, as
\* the record of its variables; validator._run and watchdog leave it alone
VARIABLE unit

\* the variables of validator._run and watchdog other than the two globals
\* SUBTENSOR and exit_cause
validatorVars == <<pc, exc, processed, sw_calls, cycleVars, identVars,
                   trialVars, clockVars, wdVars>>

unitVars == <<unit>>

vars == <<loopVars, clockVars, wdVars, exit_cause, unitVars>>

Min(a, b) == IF a < b THEN a ELSE b
Max(a, b) == IF a > b THEN a ELSE b

(* ---------------- values ---------------- *)
NoPath == [dir |-> "None", uid |-> -1]
GenPy == [dir |-> "gen.py", uid |-> -1]
PulledPath(u) == [dir |-> "agents", uid |-> u]

ZeroWeight == [num |-> 0, den |-> 1]
Ratio(n, d) == [num |-> n, den |-> d]

\* what c.verify can hand back: a mapping with a verdict, a mapping without
\* one, something that is no mapping
Verdicts == {"True", "False"}
ExpectedVerdicts == {"True", "False"}
Results ==
    {[is_dict |-> TRUE, has_verdict |-> TRUE, verdict |-> v] : v \in Verdicts}
    \cup {[is_dict |-> TRUE, has_verdict |-> FALSE, verdict |-> "absent"],
          [is_dict |-> FALSE, has_verdict |-> FALSE, verdict |-> "absent"]}

\* how entering the container can end
ContainerOutcomes == {"ok", "BuildError", "ReadinessTimeout"}

\* metagraph.uids of a subnet with n registered identities
MemberList(n) == [i \in 1..n |-> i - 1]
MemberLists == {MemberList(n) : n \in 0..MaxUids}

Range(s) == {s[i] : i \in DOMAIN s}
CurUid == uids[idx]

\* coroutines that call get_subtensor, and the calls each of them makes
Callers == {1, 2}
\* what a call returned: the client created by the id-th construction, in the
\* state it had at the return
NoClient == [id |-> 0, state |-> "None"]
Client(i, st) == [id |-> i, state |-> st]

(* ---------------- event loop ---------------- *)
\* positions at which _run is suspended in an await
AwaitPoints == {"initialize", "metagraph", "pull", "set_weights", "sleep"}
\* positions at which _run sits in a synchronous call
BlockingPoints == {"enter", "verify", "container_exit"}
Suspended == pc \in AwaitPoints
Running == exit_cause = "none"
LoopCanRun == Running /\ wd_pc = "sleep"

\* max(1, timeout // 3)
Interval(t) == Max(1, t \div 3)

LoopInit ==
    /\ pc = "cycle_start"
    /\ SUBTENSOR = "None"
    /\ uids = <<>>
    /\ weights = <<>>
    /\ idx = 0
    /\ gen_tmp_file = NoPath
    /\ success = 0
    /\ sample_idx = 0
    /\ exc = "none"
    /\ sleep_left = 0
    /\ timeout \in Timeouts
    /\ hbAge = 0
    /\ wd_pc = "sleep"
    /\ wd_left = Interval(timeout)
    /\ elapsed = 0
    /\ exit_cause = "none"
    /\ pull_result = NoPath
    /\ container_src = NoPath
    /\ open_sandboxes = {}
    /\ nInvoked = 0
    /\ nCorrect = 0
    /\ had_bad = FALSE
    /\ processed = {}
    /\ sw_calls = 0
    /\ busy = 0
    /\ gap_ok = TRUE

\* the validator alone
NoUnit == [name |-> "validator"]
Init == LoopInit /\ unit = NoUnit

(* ---------------- validator._run ---------------- *)
\* while True: try: HEARTBEAT = time.monotonic(); SAMPLES = 10
StartCycle ==
    /\ LoopCanRun
    /\ pc = "cycle_start"
    /\ hbAge' = 0
    /\ busy' = 0
    /\ pc' = "get_subtensor"
    /\ processed' = {}
    /\ sw_calls' = 0
    /\ pull_result' = NoPath
    /\ UNCHANGED <<SUBTENSOR, exc, cycleVars, gen_tmp_file, container_src,
                   open_sandboxes, trialVars, gap_ok, sleep_left, wdVars,
                   exit_cause>>
    /\ UNCHANGED unitVars

\* sub = await get_subtensor(): the client is created on first use
GetSubtensor ==
    /\ LoopCanRun
    /\ pc = "get_subtensor"
    /\ IF SUBTENSOR = "None"
       THEN SUBTENSOR' = "created" /\ pc' = "initialize"
       ELSE SUBTENSOR' = SUBTENSOR /\ pc' = "metagraph"
    /\ UNCHANGED <<exc, processed, sw_calls, cycleVars, identVars, trialVars,
                   clockVars, wdVars, exit_cause>>
    /\ UNCHANGED unitVars

\* await SUBTENSOR.initialize() returns
InitializeOk ==
    /\ LoopCanRun
    /\ pc = "initialize"
    /\ SUBTENSOR' = "ready"
    /\ pc' = "metagraph"
    /\ UNCHANGED <<exc, processed, sw_calls, cycleVars, identVars, trialVars,
                   clockVars, wdVars, exit_cause>>
    /\ UNCHANGED unitVars

\* await SUBTENSOR.initialize() raises: os._exit(1)
InitializeFail ==
    /\ LoopCanRun
    /\ pc = "initialize"
    /\ exit_cause' = "subtensor_init"
    /\ UNCHANGED <<loopVars, clockVars, wdVars>>
    /\ UNCHANGED unitVars

\* metagraph = await sub.metagraph(NETUID); uids = [...]; weights = [0 ...]
MetagraphReturn ==
    /\ LoopCanRun
    /\ pc = "metagraph"
    /\ \E m \in MemberLists :
        /\ uids' = m
        /\ weights' = [i \in DOMAIN m |-> ZeroWeight]
    /\ idx' = 0
    /\ pc' = "uid_start"
    /\ UNCHANGED <<SUBTENSOR, exc, processed, sw_calls, identVars, trialVars,
                   clockVars, wdVars, exit_cause>>
    /\ UNCHANGED unitVars

\* await sub.metagraph(NETUID) raises
MetagraphRaise ==
    /\ LoopCanRun
    /\ pc = "metagraph"
    /\ exc' = "ChainError"
    /\ pc' = "except"
    /\ UNCHANGED <<SUBTENSOR, processed, sw_calls, cycleVars, identVars,
                   trialVars, clockVars, wdVars, exit_cause>>
    /\ UNCHANGED unitVars

\* variant of NextUid without update_heartbeat()
NextUid_m ==
    /\ LoopCanRun
    /\ pc = "uid_start"
    /\ IF idx < Len(uids)
       THEN /\ idx' = idx + 1
            /\ busy' = 0
            /\ pc' = "pull"
            /\ sw_calls' = sw_calls
            /\ UNCHANGED hbAge
       ELSE /\ pc' = "set_weights"
            /\ sw_calls' = Min(sw_calls + 1, 2)
            /\ UNCHANGED <<idx, hbAge, busy>>
    /\ UNCHANGED <<SUBTENSOR, exc, processed, uids, weights, identVars,
                   trialVars, gap_ok, sleep_left, wdVars, exit_cause>>
    /\ UNCHANGED unitVars

\* for uid in uids: update_heartbeat(); after the list: sub.set_weights(...)
NextUid ==
    /\ LoopCanRun
    /\ pc = "uid_start"
    /\ IF idx < Len(uids)
       THEN /\ idx' = idx + 1
            /\ hbAge' = 0
            /\ busy' = 0
            /\ pc' = "pull"
            /\ sw_calls' = sw_calls
       ELSE /\ pc' = "set_weights"
            /\ sw_calls' = Min(sw_calls + 1, 2)
            /\ UNCHANGED <<idx, hbAge, busy>>
    /\ UNCHANGED <<SUBTENSOR, exc, processed, uids, weights, identVars,
                   trialVars, gap_ok, sleep_left, wdVars, exit_cause>>
    /\ UNCHANGED unitVars

\* gen_tmp_file = "gen.py": the file the container is created from
AgentFile(pulled) == GenPy

\* gen_tmp_file = await pull_agent(uid); gen_tmp_file = "gen.py"
PullReturn ==
    /\ LoopCanRun
    /\ pc = "pull"
    /\ \E r \in {PulledPath(CurUid), NoPath} :
        /\ pull_result' = r
        /\ gen_tmp_file' = AgentFile(r)
    /\ pc' = "enter"
    /\ UNCHANGED <<SUBTENSOR, exc, processed, sw_calls, cycleVars,
                   container_src, open_sandboxes, trialVars, clockVars,
                   wdVars, exit_cause>>
    /\ UNCHANGED unitVars

\* with Container(gen_tmp_file) as c: success = 0
ContainerEnter ==
    /\ LoopCanRun
    /\ pc = "enter"
    /\ \E o \in ContainerOutcomes :
        IF o = "ok"
        THEN /\ container_src' = gen_tmp_file
             /\ open_sandboxes' = open_sandboxes \cup {CurUid}
             /\ pc' = "verify"
             /\ exc' = exc
        ELSE /\ container_src' = container_src
             /\ open_sandboxes' = open_sandboxes
             /\ pc' = "except"
             /\ exc' = o
    /\ success' = 0
    /\ sample_idx' = 0
    /\ nInvoked' = 0
    /\ nCorrect' = 0
    /\ had_bad' = FALSE
    /\ UNCHANGED <<SUBTENSOR, processed, sw_calls, cycleVars, gen_tmp_file,
                   pull_result, clockVars, wdVars, exit_cause>>
    /\ UNCHANGED unitVars

\* the result is a mapping with a 'verdict'
WellFormed(r) == r.is_dict /\ r.has_verdict
\* the result is a mapping whose 'verdict' is the expected one
GoodVerdict(r, e) == WellFormed(r) /\ r.verdict = e

\* variant of Credit that does not compare the verdict with the expected one
Credit_m(r, e) == IF r.is_dict /\ r.has_verdict THEN 1 ELSE 0

\* if isinstance(result, dict) and "verdict" in result:
\*     if actual_verdict == expected_verdict: success += 1
Credit(r, e) == IF r.is_dict /\ r.has_verdict /\ r.verdict = e THEN 1 ELSE 0

\* one pass of "for sample_idx in range(SAMPLES)" in which c.verify returns
TrialReturn ==
    /\ LoopCanRun
    /\ pc = "verify"
    /\ sample_idx < SAMPLES
    /\ \E e \in ExpectedVerdicts, r \in Results :
        /\ success' = success + Credit(r, e)
        /\ nCorrect' = IF GoodVerdict(r, e) THEN nCorrect + 1 ELSE nCorrect
        /\ had_bad' = (had_bad \/ ~WellFormed(r))
    /\ nInvoked' = nInvoked + 1
    /\ sample_idx' = sample_idx + 1
    /\ pc' = "verify"
    /\ UNCHANGED <<SUBTENSOR, exc, processed, sw_calls, cycleVars, identVars,
                   clockVars, wdVars, exit_cause>>
    /\ UNCHANGED unitVars

\* variant of TrialRaise without the trial's except clause: the exception
\* leaves the for loop and the with block
TrialRaise_m ==
    /\ LoopCanRun
    /\ pc = "verify"
    /\ sample_idx < SAMPLES
    /\ nInvoked' = nInvoked + 1
    /\ had_bad' = TRUE
    /\ exc' = "InvocationError"
    /\ pc' = "container_exit"
    /\ UNCHANGED <<SUBTENSOR, processed, sw_calls, cycleVars, identVars,
                   success, sample_idx, nCorrect, clockVars, wdVars,
                   exit_cause>>
    /\ UNCHANGED unitVars

\* one pass in which c.verify raises: except Exception as e: logger.debug(...)
TrialRaise ==
    /\ LoopCanRun
    /\ pc = "verify"
    /\ sample_idx < SAMPLES
    /\ nInvoked' = nInvoked + 1
    /\ had_bad' = TRUE
    /\ sample_idx' = sample_idx + 1
    /\ pc' = "verify"
    /\ UNCHANGED <<SUBTENSOR, exc, processed, sw_calls, cycleVars, identVars,
                   success, nCorrect, clockVars, wdVars, exit_cause>>
    /\ UNCHANGED unitVars

\* float(success) / SAMPLES
ScoreOf(s) == Ratio(s, SAMPLES)

\* weights[uid] = float(success) / SAMPLES
Score ==
    /\ LoopCanRun
    /\ pc = "verify"
    /\ sample_idx = SAMPLES
    /\ IF CurUid + 1 \in DOMAIN weights
       THEN /\ weights' = [weights EXCEPT ![CurUid + 1] = ScoreOf(success)]
            /\ exc' = exc
       ELSE /\ weights' = weights
            /\ exc' = "IndexError"
    /\ pc' = "container_exit"
    /\ UNCHANGED <<SUBTENSOR, processed, sw_calls, uids, idx, identVars,
                   trialVars, clockVars, wdVars, exit_cause>>
    /\ UNCHANGED unitVars

\* what Container.__exit__ leaves open: it stops and removes the instance
Closed(open, u) == open \ {u}

\* variant of ContainerExit that leaves the with block without closing the
\* container
ContainerExit_m ==
    /\ LoopCanRun
    /\ pc = "container_exit"
    /\ container_src' = NoPath
    /\ open_sandboxes' = open_sandboxes
    /\ IF exc = "none"
       THEN pc' = "uid_start" /\ processed' = processed \cup {CurUid}
       ELSE pc' = "except" /\ processed' = processed
    /\ gen_tmp_file' = NoPath
    /\ success' = 0
    /\ sample_idx' = 0
    /\ nInvoked' = 0
    /\ nCorrect' = 0
    /\ had_bad' = FALSE
    /\ UNCHANGED <<SUBTENSOR, exc, sw_calls, cycleVars, pull_result,
                   clockVars, wdVars, exit_cause>>
    /\ UNCHANGED unitVars

\* Container.__exit__ at the end of the with block; success, sample_idx and
\* gen_tmp_file are rebound before their next read and are cleared here
ContainerExit ==
    /\ LoopCanRun
    /\ pc = "container_exit"
    /\ container_src' = NoPath
    /\ open_sandboxes' = Closed(open_sandboxes, CurUid)
    /\ IF exc = "none"
       THEN pc' = "uid_start" /\ processed' = processed \cup {CurUid}
       ELSE pc' = "except" /\ processed' = processed
    /\ gen_tmp_file' = NoPath
    /\ success' = 0
    /\ sample_idx' = 0
    /\ nInvoked' = 0
    /\ nCorrect' = 0
    /\ had_bad' = FALSE
    /\ UNCHANGED <<SUBTENSOR, exc, sw_calls, cycleVars, pull_result,
                   clockVars, wdVars, exit_cause>>
    /\ UNCHANGED unitVars

\* await sub.set_weights(...) returns: next iteration of while True
SetWeightsOk ==
    /\ LoopCanRun
    /\ pc = "set_weights"
    /\ pc' = "cycle_start"
    /\ UNCHANGED <<SUBTENSOR, exc, processed, sw_calls, cycleVars, identVars,
                   trialVars, clockVars, wdVars, exit_cause>>
    /\ UNCHANGED unitVars

\* variant of SetWeightsRaise that calls set_weights again in the same cycle
SetWeightsRaise_m ==
    /\ LoopCanRun
    /\ pc = "set_weights"
    /\ sw_calls' = Min(sw_calls + 1, 2)
    /\ UNCHANGED <<pc, SUBTENSOR, exc, processed, cycleVars, identVars,
                   trialVars, clockVars, wdVars, exit_cause>>
    /\ UNCHANGED unitVars

\* await sub.set_weights(...) raises
SetWeightsRaise ==
    /\ LoopCanRun
    /\ pc = "set_weights"
    /\ exc' = "SetWeightsError"
    /\ pc' = "except"
    /\ UNCHANGED <<SUBTENSOR, processed, sw_calls, cycleVars, identVars,
                   trialVars, clockVars, wdVars, exit_cause>>
    /\ UNCHANGED unitVars

\* variant of ExceptHandler that leaves the while loop instead of sleeping
ExceptHandler_m ==
    /\ LoopCanRun
    /\ pc = "except"
    /\ exc' = "none"
    /\ pc' = "done"
    /\ UNCHANGED <<SUBTENSOR, processed, sw_calls, cycleVars, identVars,
                   trialVars, clockVars, wdVars, exit_cause>>
    /\ UNCHANGED unitVars

\* except Exception as e: traceback.print_exc(); await asyncio.sleep(5)
ExceptHandler ==
    /\ LoopCanRun
    /\ pc = "except"
    /\ exc' = "none"
    /\ sleep_left' = RETRY_SLEEP
    /\ pc' = "sleep"
    /\ UNCHANGED <<SUBTENSOR, processed, sw_calls, cycleVars, identVars,
                   trialVars, hbAge, busy, gap_ok, wdVars, exit_cause>>
    /\ UNCHANGED unitVars

\* asyncio.sleep(5) is over: next iteration of while True
SleepDone ==
    /\ LoopCanRun
    /\ pc = "sleep"
    /\ sleep_left = 0
    /\ pc' = "cycle_start"
    /\ UNCHANGED <<SUBTENSOR, exc, processed, sw_calls, cycleVars, identVars,
                   trialVars, clockVars, wdVars, exit_cause>>
    /\ UNCHANGED unitVars

(* ---------------- watchdog ---------------- *)
\* await asyncio.sleep(max(1, timeout // 3)) returns, which it can only when
\* _run is suspended; elapsed = time.monotonic() - HEARTBEAT
WatchdogWake ==
    /\ Running
    /\ wd_pc = "sleep"
    /\ wd_left = 0
    /\ Suspended
    /\ elapsed' = hbAge
    /\ wd_pc' = "check"
    /\ UNCHANGED <<loopVars, clockVars, timeout, wd_left, exit_cause>>
    /\ UNCHANGED unitVars

\* variant of Stalled that compares with the polling interval
Stalled_m(e, t) == e >= Interval(t)

\* if elapsed > timeout
Stalled(e, t) == e > t

\* if elapsed > timeout: os._exit(1); else sleep again
WatchdogCheck ==
    /\ Running
    /\ wd_pc = "check"
    /\ IF Stalled(elapsed, timeout)
       THEN /\ exit_cause' = "watchdog"
            /\ UNCHANGED <<wd_pc, wd_left, elapsed>>
       ELSE /\ wd_pc' = "sleep"
            /\ wd_left' = Interval(timeout)
            /\ elapsed' = 0
            /\ exit_cause' = exit_cause
    /\ UNCHANGED <<loopVars, clockVars, timeout>>
    /\ UNCHANGED unitVars

(* ---------------- time ---------------- *)
\* One second passes.  It passes while _run is suspended in an await or sits
\* in a synchronous call; a watchdog whose sleep is over runs before more
\* time passes if _run is suspended, and cannot run if it is not.
Tick ==
    /\ Running
    /\ wd_pc = "sleep"
    /\ pc \in AwaitPoints \cup BlockingPoints
    /\ ~(Suspended /\ wd_left = 0)
    /\ pc = "sleep" => sleep_left > 0
    /\ hbAge' = Min(hbAge + 1, MaxAge)
    /\ busy' = IF pc = "sleep" THEN busy ELSE Min(busy + 1, MaxAge)
    /\ wd_left' = Max(wd_left - 1, 0)
    /\ sleep_left' = IF pc = "sleep" THEN sleep_left - 1 ELSE sleep_left
    /\ gap_ok' = (gap_ok /\ 3 * (hbAge + 1) <= timeout)
    /\ UNCHANGED <<loopVars, timeout, wd_pc, elapsed, exit_cause>>
    /\ UNCHANGED unitVars

Next ==
    \/ StartCycle
    \/ GetSubtensor
    \/ InitializeOk
    \/ InitializeFail
    \/ MetagraphReturn
    \/ MetagraphRaise
    \/ NextUid
    \/ PullReturn
    \/ ContainerEnter
    \/ TrialReturn
    \/ TrialRaise
    \/ Score
    \/ ContainerExit
    \/ SetWeightsOk
    \/ SetWeightsRaise
    \/ ExceptHandler
    \/ SleepDone
    \/ WatchdogWake
    \/ WatchdogCheck
    \/ Tick

Spec == Init /\ [][Next]_vars

(* ---------------- cancellation of the validator ---------------- *)
cancelled == unit.cancelled
open_at_cancel == unit.open_at_cancel

CancelInit == [cancelled |-> FALSE, open_at_cancel |-> {}]

\* the main task is cancelled (asyncio.run on SIGINT, or its caller): the
\* gather it awaits cancels both of its children; each of them gets the
\* CancelledError when the event loop next runs it.  The request arrives
\* while _run is suspended or sits in a synchronous call.
Cancel ==
    /\ Running
    /\ ~cancelled
    /\ pc \in AwaitPoints \cup BlockingPoints
    /\ wd_pc = "sleep"
    /\ unit' = [cancelled |-> TRUE, open_at_cancel |-> open_sandboxes]
    /\ UNCHANGED <<loopVars, clockVars, wdVars, exit_cause>>

\* a pending cancellation is delivered before anything else the event loop
\* would run; it can be once _run is suspended or has ended, the watchdog
\* not being in the middle of its check
CancelDue ==
    /\ cancelled
    /\ wd_pc # "check"
    /\ Suspended \/ pc = "done"

\* CancelledError is raised at the await _run is suspended in: inside the try
\* it is caught by "except asyncio.CancelledError: break", at the sleep of
\* the handler it leaves _run.  The locals of _run go with its frame.
RunCancelled ==
    /\ Running
    /\ CancelDue
    /\ Suspended
    /\ pc' = "done"
    /\ uids' = <<>>
    /\ weights' = <<>>
    /\ idx' = 0
    /\ processed' = {}
    /\ sw_calls' = 0
    /\ pull_result' = NoPath
    /\ UNCHANGED <<SUBTENSOR, exc, gen_tmp_file, container_src,
                   open_sandboxes, trialVars, clockVars, wdVars, exit_cause,
                   unitVars>>

\* variant of WatchdogCancelled in which the watchdog survives the
\* cancellation and sleeps again
WatchdogCancelled_m ==
    /\ Running
    /\ CancelDue
    /\ wd_pc = "sleep"
    /\ wd_left' = Interval(timeout)
    /\ unit' = [unit EXCEPT !.cancelled = FALSE]
    /\ UNCHANGED <<loopVars, clockVars, timeout, wd_pc, elapsed, exit_cause>>

\* CancelledError is raised at the watchdog's asyncio.sleep and ends it
WatchdogCancelled ==
    /\ Running
    /\ CancelDue
    /\ wd_pc = "sleep"
    /\ wd_pc' = "done"
    /\ UNCHANGED <<loopVars, clockVars, timeout, wd_left, elapsed,
                   exit_cause, unitVars>>

\* a step of _run, of the watchdog or of time while no cancellation is due;
\* cancellation is explored on subnets of at most MaxCancelUids identities
ValidatorStep ==
    /\ ~CancelDue
    /\ Next
    /\ Len(uids') <= MaxCancelUids

NextCancel ==
    \/ Cancel
    \/ RunCancelled
    \/ WatchdogCancelled
    \/ ValidatorStep

InitCancel == LoopInit /\ unit = CancelInit

SpecCancel == InitCancel /\ [][NextCancel]_vars

(* ---------------- get_subtensor, two callers ---------------- *)
\* per caller: "idle", or "initialize" while it awaits
caller_pc == unit.caller_pc
\* per caller: the client its last call returned
handed == unit.handed
\* per caller: calls of get_subtensor that have ended
calls == unit.calls
\* SUBTENSOR.initialize() calls begun in the process
inits == unit.inits

CallersInit ==
    [caller_pc |-> [c \in Callers |-> "idle"],
     handed |-> [c \in Callers |-> NoClient],
     calls |-> [c \in Callers |-> 0],
     inits |-> 0]

\* variant of CallGetSubtensor that takes the client for missing until its
\* initialize() has returned
CallGetSubtensor_m(c) ==
    /\ Running
    /\ caller_pc[c] = "idle"
    /\ calls[c] < MaxCalls
    /\ IF SUBTENSOR # "ready"
       THEN /\ SUBTENSOR' = "created"
            /\ unit' = [unit EXCEPT !.inits = @ + 1,
                                    !.caller_pc[c] = "initialize"]
       ELSE /\ SUBTENSOR' = SUBTENSOR
            /\ unit' = [unit EXCEPT !.handed[c] = Client(inits, SUBTENSOR),
                                    !.calls[c] = @ + 1]
    /\ UNCHANGED <<validatorVars, exit_cause>>

\* a call runs to its first await without interruption:
\* if SUBTENSOR is None: SUBTENSOR = bt.async_subtensor(...);
\*     await SUBTENSOR.initialize()
\* return SUBTENSOR
CallGetSubtensor(c) ==
    /\ Running
    /\ caller_pc[c] = "idle"
    /\ calls[c] < MaxCalls
    /\ IF SUBTENSOR = "None"
       THEN /\ SUBTENSOR' = "created"
            /\ unit' = [unit EXCEPT !.inits = @ + 1,
                                    !.caller_pc[c] = "initialize"]
       ELSE /\ SUBTENSOR' = SUBTENSOR
            /\ unit' = [unit EXCEPT !.handed[c] = Client(inits, SUBTENSOR),
                                    !.calls[c] = @ + 1]
    /\ UNCHANGED <<validatorVars, exit_cause>>

\* await SUBTENSOR.initialize() returns; return SUBTENSOR
CallerInitializeOk(c) ==
    /\ Running
    /\ caller_pc[c] = "initialize"
    /\ SUBTENSOR' = "ready"
    /\ unit' = [unit EXCEPT !.handed[c] = Client(inits, "ready"),
                            !.calls[c] = @ + 1,
                            !.caller_pc[c] = "idle"]
    /\ UNCHANGED <<validatorVars, exit_cause>>

\* variant of CallerInitializeFail that logs the failure and falls through
\* to return SUBTENSOR
CallerInitializeFail_m(c) ==
    /\ Running
    /\ caller_pc[c] = "initialize"
    /\ unit' = [unit EXCEPT !.handed[c] = Client(inits, "created"),
                            !.calls[c] = @ + 1,
                            !.caller_pc[c] = "idle"]
    /\ UNCHANGED <<SUBTENSOR, validatorVars, exit_cause>>

\* await SUBTENSOR.initialize() raises: except Exception: os._exit(1)
CallerInitializeFail(c) ==
    /\ Running
    /\ caller_pc[c] = "initialize"
    /\ exit_cause' = "subtensor_init"
    /\ UNCHANGED <<SUBTENSOR, validatorVars, unitVars>>

\* the caller is cancelled while it awaits SUBTENSOR.initialize():
\* CancelledError is no Exception, it leaves get_subtensor and nothing is
\* returned; the global keeps the client
CallerCancelled(c) ==
    /\ Running
    /\ caller_pc[c] = "initialize"
    /\ unit' = [unit EXCEPT !.calls[c] = @ + 1, !.caller_pc[c] = "idle"]
    /\ UNCHANGED <<SUBTENSOR, validatorVars, exit_cause>>

NextCallers ==
    \/ \E c \in Callers : CallGetSubtensor(c)
    \/ \E c \in Callers : CallerCancelled(c)
    \/ \E c \in Callers : CallerInitializeOk(c)
    \/ \E c \in Callers : CallerInitializeFail(c)

InitCallers == LoopInit /\ unit = CallersInit

SpecCallers == InitCallers /\ [][NextCallers]_vars

(* ---------------- run_miner_agent ---------------- *)
\* position of run_miner_agent, "idle" between calls
m_pc == unit.m_pc
\* argument uid of the call
m_uid == unit.m_uid
\* exception the call is ending with
m_exc == unit.m_exc
\* uids whose named container exists on the docker host
containers == unit.containers
\* loop variable i of range(max_retries)
retry_i == unit.retry_i
\* liveness checks made by the running call
checks == unit.checks
\* answer to the last liveness check of the call
health == unit.health
\* len(statements), statements handled, len(results)
n_stmts == unit.n_stmts
stmt_i == unit.stmt_i
n_results == unit.n_results
\* the call has attempted a build
built == unit.built
\* calls of run_miner_agent that have ended
evals == unit.evals

MinerInit ==
    [m_pc |-> "idle", m_uid |-> 0, m_exc |-> "none", containers |-> {},
     retry_i |-> 0, checks |-> 0, health |-> "none", n_stmts |-> 0,
     stmt_i |-> 0, n_results |-> 0, built |-> FALSE, evals |-> 0]

UidArgs == 0..(MaxUids - 1)

\* agent_dir = await pull_agent(uid); if not agent_dir: return
\* then the Dockerfile lookup, which raises FileNotFoundError before the try
MinerPull ==
    /\ m_pc = "idle"
    /\ evals < MaxEvals
    /\ \E u \in UidArgs, r \in {"None", "no_dockerfile", "dir"},
          n \in 0..MaxStatements :
        unit' = [MinerInit EXCEPT
                    !.containers = containers,
                    !.m_uid = u,
                    !.n_stmts = n,
                    !.m_pc = IF r = "dir" THEN "build" ELSE "idle",
                    !.m_exc = IF r = "no_dockerfile"
                              THEN "FileNotFoundError" ELSE "none",
                    !.evals = IF r = "dir" THEN evals ELSE evals + 1]
    /\ UNCHANGED <<loopVars, clockVars, wdVars, exit_cause>>

\* variant of BuildImage in which a failed build is printed and the call
\* goes on to run_docker_container
BuildImage_m ==
    /\ m_pc = "build"
    /\ \E ok \in BOOLEAN :
        unit' = [unit EXCEPT
                    !.built = TRUE,
                    !.m_pc = "start",
                    !.m_exc = IF ok THEN @ ELSE "CalledProcessError"]
    /\ UNCHANGED <<loopVars, clockVars, wdVars, exit_cause>>

\* build_docker_image(image_name, agent_path): returns or raises
BuildImage ==
    /\ m_pc = "build"
    /\ \E ok \in BOOLEAN :
        unit' = [unit EXCEPT
                    !.built = TRUE,
                    !.m_pc = IF ok THEN "start" ELSE "finally",
                    !.m_exc = IF ok THEN @ ELSE "CalledProcessError"]
    /\ UNCHANGED <<loopVars, clockVars, wdVars, exit_cause>>

\* what stop_and_remove_container leaves on the host: docker ps, and if the
\* name is listed docker stop and docker rm, none of them checked; when a
\* command fails or raises the container stays
StopAndRemove(cs, u) == {cs \ {u}, cs}

\* run_docker_container up to docker_command("run", "-d", ...)
StartContainer ==
    /\ m_pc = "start"
    /\ \E cs \in StopAndRemove(containers, m_uid), ok \in BOOLEAN :
        unit' = IF ok /\ m_uid \notin cs
                THEN [unit EXCEPT !.containers = cs \cup {m_uid},
                                  !.m_pc = "poll",
                                  !.retry_i = 0]
                ELSE [unit EXCEPT !.containers = cs,
                                  !.m_pc = "finally",
                                  !.m_exc = "CalledProcessError"]
    /\ UNCHANGED <<loopVars, clockVars, wdVars, exit_cause>>

\* what requests.get(f"{API_URL}/health", timeout=2) can do: answer with a
\* status, or raise a requests.exceptions.RequestException
HealthAnswers == {"200", "503", "RequestException"}

\* if response.status_code == 200
Ready(a) == a = "200"

\* variant of PollCheck without the except clause: a request error leaves
\* the loop
PollCheck_m ==
    /\ m_pc = "poll"
    /\ retry_i < max_retries
    /\ \E a \in HealthAnswers :
        unit' = IF Ready(a)
                THEN [unit EXCEPT !.checks = @ + 1, !.health = a,
                                  !.m_pc = "invoke"]
                ELSE IF a = "RequestException"
                THEN [unit EXCEPT !.checks = @ + 1, !.health = a,
                                  !.m_pc = "finally", !.m_exc = a]
                ELSE [unit EXCEPT !.checks = @ + 1, !.health = a,
                                  !.retry_i = @ + 1]
    /\ UNCHANGED <<loopVars, clockVars, wdVars, exit_cause>>

\* one pass of "for i in range(max_retries)": the check, and time.sleep(1)
\* when it did not answer 200
PollCheck ==
    /\ m_pc = "poll"
    /\ retry_i < max_retries
    /\ \E a \in HealthAnswers :
        unit' = IF Ready(a)
                THEN [unit EXCEPT !.checks = @ + 1, !.health = a,
                                  !.m_pc = "invoke"]
                ELSE [unit EXCEPT !.checks = @ + 1, !.health = a,
                                  !.retry_i = @ + 1]
    /\ UNCHANGED <<loopVars, clockVars, wdVars, exit_cause>>

\* the for loop is exhausted: raise TimeoutError(...)
PollTimeout ==
    /\ m_pc = "poll"
    /\ retry_i = max_retries
    /\ unit' = [unit EXCEPT !.m_exc = "TimeoutError", !.m_pc = "finally"]
    /\ UNCHANGED <<loopVars, clockVars, wdVars, exit_cause>>

\* one statement: call_verify_api returns and its result is appended, or it
\* raises and None is appended
Invoke ==
    /\ m_pc = "invoke"
    /\ stmt_i < n_stmts
    /\ unit' = [unit EXCEPT !.stmt_i = @ + 1, !.n_results = @ + 1]
    /\ UNCHANGED <<loopVars, clockVars, wdVars, exit_cause>>

\* return results
InvokeDone ==
    /\ m_pc = "invoke"
    /\ stmt_i = n_stmts
    /\ unit' = [unit EXCEPT !.m_pc = "finally"]
    /\ UNCHANGED <<loopVars, clockVars, wdVars, exit_cause>>

\* finally: stop_and_remove_container(container_name); the call ends,
\* returning results or raising m_exc
MinerFinally ==
    /\ m_pc = "finally"
    /\ \E cs \in StopAndRemove(containers, m_uid) :
        unit' = [unit EXCEPT !.containers = cs,
                             !.m_pc = "idle",
                             !.evals = @ + 1]
    /\ UNCHANGED <<loopVars, clockVars, wdVars, exit_cause>>

NextMiner ==
    \/ MinerPull
    \/ BuildImage
    \/ StartContainer
    \/ PollCheck
    \/ PollTimeout
    \/ Invoke
    \/ InvokeDone
    \/ MinerFinally

InitMiner == LoopInit /\ unit = MinerInit

SpecMiner == InitMiner /\ [][NextMiner]_vars

\* every step of run_miner_agent is a bounded synchronous call
SpecMinerLive == SpecMiner /\ WF_vars(NextMiner)

(* ---------------- pull_agent: locator normalization ---------------- *)
\* A committed string is a sequence of pieces; the pieces are chosen so that
\* "http", "api.github.com" and "/" occur in a string only as pieces.
Pieces == {"http", "s", ":", "/", "api.github.com", "gists", "abc"}

RECURSIVE StringsUpTo(_)
StringsUpTo(n) ==
    IF n = 0 THEN {<<>>}
    ELSE LET shorter == StringsUpTo(n - 1)
         IN shorter \cup {Append(s, p) : s \in shorter, p \in Pieces}

\* "https://api.github.com/gists/"
GistPrefix ==
    <<"http", "s", ":", "/", "/", "api.github.com", "/", "gists", "/">>

\* g.startswith("http")
StartsWithHttp(g) == Len(g) >= 1 /\ g[1] = "http"
\* "api.github.com" in g
ContainsApi(g) == \E i \in DOMAIN g : g[i] = "api.github.com"

\* g.rstrip('/')
RECURSIVE RStripSlash(_)
RStripSlash(g) ==
    IF Len(g) > 0 /\ g[Len(g)] = "/"
    THEN RStripSlash(SubSeq(g, 1, Len(g) - 1))
    ELSE g

\* g.split('/')[-1]
LastSegment(g) ==
    LET slashes == {i \in DOMAIN g : g[i] = "/"}
        last == IF slashes = {} THEN 0
                ELSE CHOOSE i \in slashes : \A j \in slashes : j <= i
    IN SubSeq(g, last + 1, Len(g))

\* variant of Normalize whose second test has lost its "not"
Normalize_m(g) ==
    LET g1 == IF StartsWithHttp(g) /\ ~ContainsApi(g)
              THEN GistPrefix \o LastSegment(RStripSlash(g))
              ELSE g
    IN IF StartsWithHttp(g1) THEN GistPrefix \o g1 ELSE g1

\* if g.startswith("http") and "api.github.com" not in g:
\*     g = f"https://api.github.com/gists/{g.rstrip('/').split('/')[-1]}"
\* if not g.startswith("http"):
\*     g = f"https://api.github.com/gists/{g}"
Normalize(g) ==
    LET g1 == IF StartsWithHttp(g) /\ ~ContainsApi(g)
              THEN GistPrefix \o LastSegment(RStripSlash(g))
              ELSE g
    IN IF ~StartsWithHttp(g1) THEN GistPrefix \o g1 ELSE g1

\* the committed string, what the code makes of it, and what it makes of that
committed == unit.committed
n_pc == unit.n_pc
once == unit.once
twice == unit.twice

NormInit(s) == [committed |-> s, n_pc |-> "commit", once |-> <<>>,
                twice |-> <<>>]

\* g = commit[0][1] and the two ifs
NormalizeCommitted ==
    /\ n_pc = "commit"
    /\ unit' = [unit EXCEPT !.once = Normalize(committed), !.n_pc = "once"]
    /\ UNCHANGED <<loopVars, clockVars, wdVars, exit_cause>>

\* the result is committed and pulled again
NormalizeAgain ==
    /\ n_pc = "once"
    /\ unit' = [unit EXCEPT !.twice = Normalize(once), !.n_pc = "twice"]
    /\ UNCHANGED <<loopVars, clockVars, wdVars, exit_cause>>

NextNorm ==
    \/ NormalizeCommitted
    \/ NormalizeAgain

InitNorm == LoopInit /\ \E s \in StringsUpTo(MaxLocLen) : unit = NormInit(s)

SpecNorm == InitNorm /\ [][NextNorm]_vars

(* ---------------- pull_agent: download ---------------- *)
\* how "async with s.get(g) as r: data = await r.json()" can go: the request
\* fails in transport, or it is answered: with the gist and its "files", with
\* a non-success status and a JSON error body, or with one and another body
ManifestAnswers == {"transport_error", "200_files", "404_json", "500_text"}
\* how "async with s.get(file_meta["raw_url"]) as r: content = await r.text()"
\* can go
FileAnswers == {"transport_error", "200", "404"}
\* a file of the manifest: its content is in the manifest, or it is missing
\* or truncated there and is fetched from raw_url
FileKinds == {"inline", "raw"}
Manifests ==
    UNION {[1..n -> FileKinds] : n \in 0..MaxFiles}

\* what "await sub.get_revealed_commitment(netuid=NETUID, uid=uid)" gives:
\* None or an empty tuple when nothing was revealed for the uid, the
\* revealed (block, data) pairs, or an exception of the chain client
CommitAnswers == {"None", "empty", "revealed", "raise"}

\* unit.commit: what get_revealed_commitment gave; unit.fetches: the GET
\* requests made; unit.mkdir: agents/{uid}/{block}/ was created;
\* unit.files: data["files"]; unit.written: what was written for each file
\* so far; unit.failed: a fetch failed in transport or was answered with a
\* non-success status; unit.returned: what pull_agent returned;
\* unit.build_input: what run_miner_agent builds the image from
PullInit ==
    [p_pc |-> "commit", commit |-> "pending", fetches |-> 0,
     mkdir |-> FALSE, files |-> <<>>, written |-> <<>>,
     failed |-> FALSE, returned |-> "pending", build_input |-> "pending"]

\* variant of GetRevealedCommitment that takes an empty tuple for a
\* commitment
GetRevealedCommitment_m ==
    /\ unit.p_pc = "commit"
    /\ \E a \in CommitAnswers :
        unit' = IF a \in {"revealed", "empty"}
                THEN [unit EXCEPT !.commit = a, !.p_pc = "manifest"]
                ELSE [unit EXCEPT !.commit = a, !.returned = "None",
                                  !.p_pc = "returned"]
    /\ UNCHANGED <<loopVars, clockVars, wdVars, exit_cause>>

\* commit = await sub.get_revealed_commitment(...); g = commit[0][1]:
\* TypeError for None, IndexError for an empty tuple, both taken by
\* "except Exception", which returns None
GetRevealedCommitment ==
    /\ unit.p_pc = "commit"
    /\ \E a \in CommitAnswers :
        unit' = IF a = "revealed"
                THEN [unit EXCEPT !.commit = a, !.p_pc = "manifest"]
                ELSE [unit EXCEPT !.commit = a, !.returned = "None",
                                  !.p_pc = "returned"]
    /\ UNCHANGED <<loopVars, clockVars, wdVars, exit_cause>>

\* the manifest fetch, dir_path.mkdir(...), data["files"]: a body that is
\* no JSON raises before the mkdir, one without "files" after it
FetchManifest ==
    /\ unit.p_pc = "manifest"
    /\ \E a \in ManifestAnswers :
        IF a = "200_files"
        THEN \E fs \in Manifests :
                unit' = [unit EXCEPT !.fetches = @ + 1, !.mkdir = TRUE,
                                     !.files = fs, !.p_pc = "files"]
        ELSE unit' = [unit EXCEPT !.fetches = @ + 1,
                                  !.mkdir = (a = "404_json"),
                                  !.failed = TRUE,
                                  !.returned = "None",
                                  !.p_pc = "returned"]
    /\ UNCHANGED <<loopVars, clockVars, wdVars, exit_cause>>

\* one pass of "for filename, file_meta in data["files"].items()": the
\* content of the manifest, or the text of whatever raw_url answered, is
\* written; a transport error leaves the function through its handler
SaveFile ==
    /\ unit.p_pc = "files"
    /\ Len(unit.written) < Len(unit.files)
    /\ LET kind == unit.files[Len(unit.written) + 1]
       IN  IF kind = "inline"
           THEN unit' = [unit EXCEPT !.written = Append(@, "content")]
           ELSE \E a \in FileAnswers :
                   unit' = IF a = "200"
                           THEN [unit EXCEPT !.fetches = @ + 1,
                                             !.written = Append(@, "content")]
                           ELSE IF a = "404"
                           THEN [unit EXCEPT
                                    !.fetches = @ + 1,
                                    !.written = Append(@, "error_body"),
                                    !.failed = TRUE]
                           ELSE [unit EXCEPT !.fetches = @ + 1,
                                             !.failed = TRUE,
                                             !.returned = "None",
                                             !.p_pc = "returned"]
    /\ UNCHANGED <<loopVars, clockVars, wdVars, exit_cause>>

\* return resolved_path
PullDone ==
    /\ unit.p_pc = "files"
    /\ Len(unit.written) = Len(unit.files)
    /\ unit' = [unit EXCEPT !.returned = "dir", !.p_pc = "returned"]
    /\ UNCHANGED <<loopVars, clockVars, wdVars, exit_cause>>

\* run_miner_agent: if not agent_dir: return; else the image is built from
\* the directory
BuildFromPull ==
    /\ unit.p_pc = "returned"
    /\ unit' = [unit EXCEPT
                    !.build_input = IF unit.returned = "None"
                                    THEN "none" ELSE "dir",
                    !.p_pc = "done"]
    /\ UNCHANGED <<loopVars, clockVars, wdVars, exit_cause>>

NextPull ==
    \/ GetRevealedCommitment
    \/ FetchManifest
    \/ SaveFile
    \/ PullDone
    \/ BuildFromPull

InitPull == LoopInit /\ unit = PullInit

SpecPull == InitPull /\ [][NextPull]_vars

(* ---------------- SignatureVerifier ---------------- *)
\* hotkey addresses (ss58 strings, none of which holds a ":") and gist urls,
\* each named by its index
Addresses == 1..MaxKeys
GistUrls == 1..MaxGists
\* the random part of an sr25519 signature
Nonces == {0, 1}

\* f"{wallet_address}:{gist_url}"
Message_m(a, g) == <<a, ":">>
Message(a, g) == <<a, ":", g>>

\* hotkey.sign(message_bytes): the bytes only the holder of the private key
\* of address k can make for message m, one byte for the key, one for the
\* message and one for the random part
KeypairSign(k, m, r) == <<k, 16 * m[1] + (IF Len(m) = 3 THEN m[3] ELSE 0), r>>

\* bt.Keypair(ss58_address=a).verify(message_bytes, signature_bytes)
KeypairVerify(a, m, b) == \E r \in Nonces : b = KeypairSign(a, m, r)

HexDigits ==
    <<"0", "1", "2", "3", "4", "5", "6", "7",
      "8", "9", "a", "b", "c", "d", "e", "f">>

\* bytes.hex(): two digits for each byte
RECURSIVE Hex(_)
Hex(b) ==
    IF b = <<>> THEN <<>>
    ELSE <<HexDigits[(Head(b) \div 16) + 1], HexDigits[(Head(b) % 16) + 1]>>
            \o Hex(Tail(b))

\* the bytes of an even number of hex digits
RECURSIVE HexBytes(_)
HexBytes(s) ==
    LET DigitValue(c) == (CHOOSE i \in 1..16 : HexDigits[i] = c) - 1
    IN  IF s = <<>> THEN <<>>
        ELSE <<16 * DigitValue(s[1]) + DigitValue(s[2])>>
                \o HexBytes(SubSeq(s, 3, Len(s)))

\* bytes.fromhex(signature): ValueError for an odd number of digits or for
\* a character that is no hex digit
FromHex(s) ==
    IF /\ Len(s) % 2 = 0
       /\ \A i \in 1..Len(s) : \E d \in 1..16 : HexDigits[d] = s[i]
    THEN [ok |-> TRUE, bytes |-> HexBytes(s)]
    ELSE [ok |-> FALSE, bytes |-> <<>>]

\* the signature strings a caller can hand in with address a and gist url
\* g, next to what create_signature returned: the hex form of what the
\* holder of a's key made for them and of other bytes of that length, and
\* strings that are no hex
SignatureStrings(a, g) ==
    {Hex(KeypairSign(a, <<a, ":", g>>, 0)), Hex(<<0, 0, 0>>),
     <<"0">>, <<"0", "1", "g", "0">>}

\* self.metagraph: None after a failed initialisation, else the hotkeys of
\* the last sync
NoMetagraph == [init |-> FALSE, hotkeys |-> {}]
Metagraph(h) == [init |-> TRUE, hotkeys |-> h]
\* refresh_metagraph: nothing without a metagraph; else the interval has
\* not passed or the sync failed or found nothing new, or the sync brought
\* a hotkey registered or deregistered since the last one
Refreshed(mg) ==
    IF ~mg.init THEN {mg}
    ELSE {mg} \cup {Metagraph(mg.hotkeys \cup {a}) : a \in Addresses}
              \cup {Metagraph(mg.hotkeys \ {a}) : a \in Addresses}

\* verify_wallet_hotkey, after its refresh
WalletHotkeyOk(mg, a) == ~mg.init \/ a \in mg.hotkeys

\* verify_request_signature: "raise HTTPException(...ERROR_INVALID_SIGNATURE)"
\* is inside the try, and "except Exception" answers it with another
\* HTTPException, as it answers the ValueError of fromhex
verify_request_signature(s, m, a) ==
    LET signature_bytes == FromHex(s)
    IN  IF ~signature_bytes.ok THEN "HTTPException"
        ELSE IF KeypairVerify(a, m, signature_bytes.bytes) THEN "True"
        ELSE "HTTPException"

\* sign_message: the wallet's hotkey signs when the address is its own; a
\* keypair made from an address alone has no private key
sign_message(mg, wallet, a, m, r) ==
    IF ~WalletHotkeyOk(mg, a)
    THEN [out |-> "HTTPException401", sig |-> <<>>]
    ELSE IF wallet = a
    THEN [out |-> "signature", sig |-> Hex(KeypairSign(wallet, m, r))]
    ELSE [out |-> "HTTPException500", sig |-> <<>>]

\* unit.wallet: the address of bittensor_service.wallet.hotkey, 0 without a
\* wallet; unit.metagraph: self.metagraph; unit.c_out, unit.c_gist,
\* unit.sig: how the last create_signature ended, for which gist url, and
\* what it returned; unit.v_out, unit.v_addr, unit.v_gist, unit.v_sig: how
\* the last verify_signature ended and what it was called with; unit.v_reg:
\* the address was among the hotkeys its verify_wallet_hotkey looked at
SigInit(w, mg) ==
    [wallet |-> w, metagraph |-> mg,
     c_out |-> "none", c_gist |-> 0, sig |-> <<>>,
     v_out |-> "none", v_addr |-> 0, v_gist |-> 0, v_sig |-> <<>>,
     v_reg |-> FALSE]

\* create_signature(gist_url)
CreateSignature ==
    /\ \E g \in GistUrls, r \in Nonces, mg \in Refreshed(unit.metagraph) :
        IF unit.wallet = 0
        THEN unit' = [unit EXCEPT !.c_out = "HTTPException500",
                                  !.c_gist = g, !.sig = <<>>]
        ELSE LET res == sign_message(mg, unit.wallet, unit.wallet,
                                     Message(unit.wallet, g), r)
             IN  unit' = [unit EXCEPT !.metagraph = mg,
                                      !.c_out = res.out,
                                      !.c_gist = g, !.sig = res.sig]
    /\ UNCHANGED <<loopVars, clockVars, wdVars, exit_cause>>

\* verify_signature(wallet_address, gist_url, signature): the HTTPException
\* of either step is raised again; nothing of the two steps raises another
\* exception, so "return False" is not taken
VerifySignature ==
    /\ \E a \in Addresses, g \in GistUrls,
          mg \in Refreshed(unit.metagraph) :
       \E s \in SignatureStrings(a, g) \cup {unit.sig} :
        unit' = [unit EXCEPT
                    !.metagraph = mg,
                    !.v_reg = (mg.init /\ a \in mg.hotkeys),
                    !.v_addr = a, !.v_gist = g, !.v_sig = s,
                    !.v_out = IF ~WalletHotkeyOk(mg, a)
                              THEN "HTTPException"
                              ELSE verify_request_signature(
                                       s, Message(a, g), a)]
    /\ UNCHANGED <<loopVars, clockVars, wdVars, exit_cause>>

NextSig ==
    \/ CreateSignature
    \/ VerifySignature

InitSig ==
    /\ LoopInit
    /\ \E w \in Addresses \cup {0},
          mg \in {NoMetagraph} \cup {Metagraph(h) : h \in SUBSET Addresses} :
        unit = SigInit(w, mg)

SpecSig == InitSig /\ [][NextSig]_vars

(* ---------------- SignatureVerifier: membership and refresh ---------------- *)
\* the seconds that pass between two calls of the verifier; calls can also
\* follow each other within the same second
Waits == {100, 101}

\* the verifier as __init__ sets it up before its refresh_metagraph.
\* since_refresh is current_time - self.last_refresh_time, kept up to
\* REFRESH_INTERVAL_SECONDS + 1 (last_refresh_time = 0 is the epoch);
\* synced, since_sync and sync_gap_ok watch the calls of metagraph.sync():
\* one was made, the seconds since the last one, and every two were more
\* than REFRESH_INTERVAL_SECONDS apart; w_out, w_addr, w_member: how the
\* last verify_wallet_hotkey ended, for which address, and whether that
\* address was among the hotkeys of the metagraph
Constructing(mg) ==
    [metagraph |-> mg, since_refresh |-> REFRESH_INTERVAL_SECONDS + 1,
     synced |-> FALSE, since_sync |-> 0, sync_gap_ok |-> TRUE,
     w_out |-> "none", w_addr |-> 0, w_member |-> FALSE]

\* refresh_metagraph in state u of the verifier: the states it can leave.
\* last_refresh_time is set after a sync that did not raise
refresh_metagraph(u) ==
    IF ~u.metagraph.init THEN {u}
    ELSE IF u.since_refresh > REFRESH_INTERVAL_SECONDS
    THEN LET issued ==
                [u EXCEPT
                   !.sync_gap_ok =
                       @ /\ (u.synced =>
                               u.since_sync > REFRESH_INTERVAL_SECONDS),
                   !.synced = TRUE, !.since_sync = 0]
         IN  {issued} \cup
             {[issued EXCEPT !.metagraph = Metagraph(h), !.since_refresh = 0]
                 : h \in SUBSET Addresses}
    ELSE {u}

\* time.time() moves on between two calls
Elapse ==
    /\ \E d \in Waits :
        LET Later(t) ==
                IF t + d > REFRESH_INTERVAL_SECONDS
                THEN REFRESH_INTERVAL_SECONDS + 1 ELSE t + d
        IN  unit' = [unit EXCEPT !.since_refresh = Later(@),
                                 !.since_sync = Later(@)]
    /\ UNCHANGED <<loopVars, clockVars, wdVars, exit_cause>>

\* a call of refresh_metagraph
RefreshMetagraph ==
    /\ unit' \in refresh_metagraph(unit)
    /\ UNCHANGED <<loopVars, clockVars, wdVars, exit_cause>>

\* verify_wallet_hotkey(wallet_hotkey)
VerifyWalletHotkey ==
    /\ \E a \in Addresses, u \in refresh_metagraph(unit) :
        unit' = [u EXCEPT
                    !.w_addr = a,
                    !.w_member = (u.metagraph.init
                                    /\ a \in u.metagraph.hotkeys),
                    !.w_out = IF WalletHotkeyOk(u.metagraph, a)
                              THEN "returned" ELSE "HTTPException401"]
    /\ UNCHANGED <<loopVars, clockVars, wdVars, exit_cause>>

NextMember ==
    \/ Elapse
    \/ RefreshMetagraph
    \/ VerifyWalletHotkey

InitMember ==
    /\ LoopInit
    /\ \E mg \in {NoMetagraph} \cup {Metagraph(h) : h \in SUBSET Addresses} :
        unit \in refresh_metagraph(Constructing(mg))

SpecMember == InitMember /\ [][NextMember]_vars

(* ---------------- VerifierService.send_submission ---------------- *)
\* how the lines before the request end: the import of line 39 or the
\* construction of the verifier raises, create_signature raises its
\* HTTPException, or the signature is there
Preludes == {"ImportError", "AttributeError", "HTTPException", "signed"}

\* what requests.post comes back with: no response (status 0: the
\* connection failed), or a status and a body: a JSON object with a
\* submission_id and no rejection_reason, with both, with neither, the JSON
\* null, a JSON list, or no JSON (as the empty body of a 204)
Statuses == {200, 201, 204, 300, 400, 409, 500}
Bodies == {"id", "id_rejected", "no_id", "null", "list", "not_json"}
NoResponse == [status |-> 0, body |-> "not_json"]
Responses ==
    {NoResponse} \cup
    {r \in [status : Statuses, body : Bodies] :
        r.status = 204 => r.body = "not_json"}

\* lines 69-88: raise_for_status raises HTTPError for 4xx and 5xx; json()
\* raises for a body that is no JSON; "'submission_id' in response_json"
\* raises TypeError for null and is false for a list
Answer_m(r) ==
    IF r.status = 0
    THEN [outcome |-> "raised", exc |-> "RequestException", log |-> "error"]
    ELSE IF r.status >= 400
    THEN [outcome |-> "raised", exc |-> "HTTPError", log |-> "error"]
    ELSE IF r.body = "not_json"
    THEN [outcome |-> "raised", exc |-> "JSONDecodeError", log |-> "error"]
    ELSE IF r.body = "null"
    THEN [outcome |-> "raised", exc |-> "TypeError", log |-> "info"]
    ELSE IF r.body = "id"
    THEN [outcome |-> "returned", exc |-> "none", log |-> "info"]
    ELSE [outcome |-> "returned", exc |-> "none", log |-> "warning"]
Answer(r) ==
    IF r.status = 0
    THEN [outcome |-> "raised", exc |-> "RequestException", log |-> "error"]
    ELSE IF r.status >= 400
    THEN IF r.status = 409
         THEN [outcome |-> "None", exc |-> "none", log |-> "warning"]
         ELSE [outcome |-> "raised", exc |-> "HTTPError", log |-> "error"]
    ELSE IF r.body = "not_json"
    THEN [outcome |-> "raised", exc |-> "JSONDecodeError", log |-> "error"]
    ELSE IF r.body = "null"
    THEN [outcome |-> "raised", exc |-> "TypeError", log |-> "info"]
    ELSE IF r.body = "id"
    THEN [outcome |-> "returned", exc |-> "none", log |-> "info"]
    ELSE [outcome |-> "returned", exc |-> "none", log |-> "warning"]

\* unit.posts: the requests sent so far; unit.gist, unit.response,
\* unit.result: the last call of send_submission, what the server answered
\* it (NoResponse also when nothing was sent) and how it ended;
\* unit.posted: the last call sent its request
SubmitInit ==
    [posts |-> 0, gist |-> 0, posted |-> FALSE, response |-> NoResponse,
     result |-> [outcome |-> "none", exc |-> "none", log |-> "none"]]

\* send_submission(gist_url); the function has no await
SendSubmission ==
    /\ unit.posts < MaxPosts
    /\ \E g \in GistUrls, p \in Preludes, r \in Responses :
        unit' = IF p # "signed"
                THEN [unit EXCEPT
                        !.gist = g, !.posted = FALSE,
                        !.response = NoResponse,
                        !.result = [outcome |-> "raised", exc |-> p,
                                    log |-> "error"]]
                ELSE [unit EXCEPT
                        !.gist = g, !.posted = TRUE,
                        !.posts = @ + 1,
                        !.response = r,
                        !.result = Answer(r)]
    /\ UNCHANGED <<loopVars, clockVars, wdVars, exit_cause>>

NextSubmit == SendSubmission

InitSubmit == LoopInit /\ unit = SubmitInit

SpecSubmit == InitSubmit /\ [][NextSubmit]_vars

(* ---------------- push ---------------- *)
\* file_path: nothing there, one file, or a directory with n files under
\* it; r of the files can be read as utf-8 text
Paths ==
    {[kind |-> "missing", n |-> 0, r |-> 0]} \cup
    {[kind |-> "file", n |-> 1, r |-> r] : r \in 0..1} \cup
    {p \in [kind : {"dir"}, n : 0..MaxFiles, r : 0..MaxFiles] : p.r <= p.n}

\* add_files_for_gist(file_path): the number of entries of files_dict, or
\* -1 for its RuntimeError
add_files_for_gist(p) ==
    IF p.kind = "missing" THEN -1
    ELSE IF p.r = 0 THEN -1
    ELSE p.r

\* how session.post("https://api.github.com/gists", ...) is answered
GistAnswers == {"201", "401", "422", "transport_error"}

\* unit.q_pc: where main is; unit.path: file_path; unit.files: len(files_dict);
\* unit.net: the network calls made so far; unit.ended: how push ended;
\* unit.html_url: the html_url of the created gist; unit.commitment: the
\* data of set_reveal_commitment (0: none); unit.member: what the test of
\* the hotkey found; unit.gist_answer: how the POST of the gist was answered
PushInit(p) ==
    [q_pc |-> "get_subtensor", path |-> p, files |-> 0, net |-> <<>>,
     ended |-> "running", html_url |-> 0, commitment |-> 0,
     member |-> "unknown", gist_answer |-> "none"]

\* sub = await get_subtensor(): os._exit(1) when initialize raises
PushGetSubtensor ==
    /\ unit.q_pc = "get_subtensor"
    /\ \E ok \in BOOLEAN :
        unit' = IF ok
                THEN [unit EXCEPT !.net = Append(@, "initialize"),
                                  !.q_pc = "metagraph"]
                ELSE [unit EXCEPT !.net = Append(@, "initialize"),
                                  !.q_pc = "done", !.ended = "os._exit"]
    /\ UNCHANGED <<loopVars, clockVars, wdVars, exit_cause>>

\* variant of PushMetagraph that logs "Not registered" and goes on
PushMetagraph_m ==
    /\ unit.q_pc = "metagraph"
    /\ \E a \in {"raise", "not_registered", "registered"} :
        unit' = IF a # "raise"
                THEN [unit EXCEPT !.net = Append(@, "metagraph"),
                                  !.member = a,
                                  !.q_pc = "add_files"]
                ELSE [unit EXCEPT !.net = Append(@, "metagraph"),
                                  !.member = a,
                                  !.q_pc = "done",
                                  !.ended = "Exception"]
    /\ UNCHANGED <<loopVars, clockVars, wdVars, exit_cause>>

\* metagraph = await sub.metagraph(NETUID) and the test of the hotkey
PushMetagraph ==
    /\ unit.q_pc = "metagraph"
    /\ \E a \in {"raise", "not_registered", "registered"} :
        unit' = IF a = "registered"
                THEN [unit EXCEPT !.net = Append(@, "metagraph"),
                                  !.member = a,
                                  !.q_pc = "add_files"]
                ELSE [unit EXCEPT !.net = Append(@, "metagraph"),
                                  !.member = a,
                                  !.q_pc = "done",
                                  !.ended = IF a = "raise" THEN "Exception"
                                            ELSE "os._exit"]
    /\ UNCHANGED <<loopVars, clockVars, wdVars, exit_cause>>

\* files_dict = add_files_for_gist(file_path)
AddFiles ==
    /\ unit.q_pc = "add_files"
    /\ LET n == add_files_for_gist(unit.path)
       IN  unit' = IF n = -1
                   THEN [unit EXCEPT !.q_pc = "done",
                                     !.ended = "RuntimeError_files"]
                   ELSE [unit EXCEPT !.files = n, !.q_pc = "upload"]
    /\ UNCHANGED <<loopVars, clockVars, wdVars, exit_cause>>

\* the POST of the gist: RuntimeError unless the status is 201, else
\* gist_url = (await resp.json())["html_url"]
UploadGist ==
    /\ unit.q_pc = "upload"
    /\ \E a \in GistAnswers :
        IF a = "201"
        THEN \E g \in GistUrls :
                unit' = [unit EXCEPT !.net = Append(@, "post_gist"),
                                     !.gist_answer = a,
                                     !.html_url = g, !.q_pc = "commit"]
        ELSE unit' = [unit EXCEPT
                        !.net = Append(@, "post_gist"),
                        !.gist_answer = a,
                        !.q_pc = "done",
                        !.ended = IF a = "transport_error"
                                  THEN "Exception" ELSE "RuntimeError_gist"]
    /\ UNCHANGED <<loopVars, clockVars, wdVars, exit_cause>>

\* await sub.set_reveal_commitment(..., data=gist_url, ...)
Commit ==
    /\ unit.q_pc = "commit"
    /\ \E ok \in BOOLEAN :
        unit' = IF ok
                THEN [unit EXCEPT !.net = Append(@, "commit"),
                                  !.commitment = unit.html_url,
                                  !.q_pc = "done", !.ended = "returned"]
                ELSE [unit EXCEPT !.net = Append(@, "commit"),
                                  !.q_pc = "done", !.ended = "Exception"]
    /\ UNCHANGED <<loopVars, clockVars, wdVars, exit_cause>>

NextPush ==
    \/ PushGetSubtensor
    \/ PushMetagraph
    \/ AddFiles
    \/ UploadGist
    \/ Commit

InitPush == LoopInit /\ \E p \in Paths : unit = PushInit(p)

SpecPush == InitPush /\ [][NextPush]_vars

(* ---------------- envs/verify: POST /verify ---------------- *)
\* the statement after strip(), as far as verify_statement looks at it: the
\* number of its words and whether it holds one of true_statements, one of
\* false_statements, both or neither.  The shortest of true_statements has
\* two words, the shortest of false_statements three
StatementKinds == {"neither", "true", "false", "both"}
Statements ==
    {s \in [words : 0..MaxWords, kind : StatementKinds] :
        /\ s.kind = "true" => s.words >= 2
        /\ s.kind = "false" => s.words >= 3
        /\ s.kind = "both" => s.words >= 5}

\* the words of the sentence that is appended to a short reasoning
PadWords == 14

\* the words of reasoning before "Ensure reasoning is 100-500 words":
\* "Analyzed statement: ...", "Statement is corroborated: ... . This
\* statement aligns ..." or "Statement is refuted: ... . This statement
\* contradicts ..."
ReasoningWords(s) ==
    IF s.kind = "neither" THEN 2 + s.words
    ELSE IF s.kind = "true" THEN 3 + s.words + 14
    ELSE 3 + s.words + 13

\* lines 120-124: a reasoning of fewer than 100 words gets the sentence
\* (100 - word_count) times, one of more than 500 is cut to 500
EnsureWords(word_count) ==
    IF word_count < 100 THEN word_count + PadWords * (100 - word_count)
    ELSE IF word_count > 500 THEN 500
    ELSE word_count

\* overall_score in tenths, and overall_verdict: the loop over
\* false_statements runs after the one over true_statements
Verdict(s) ==
    IF s.kind \in {"false", "both"} THEN [score |-> 1, verdict |-> "refutes"]
    ELSE IF s.kind = "true" THEN [score |-> 9, verdict |-> "corroborates"]
    ELSE [score |-> 5, verdict |-> "neutral"]

\* unit.request: the statement and whether statement_id is empty;
\* unit.response: the status the endpoint answered with and, for 200, the
\* fields of VerifyResponse (the number of words of reasoning, the number
\* of evidence items)
VerifyInit(s, e) ==
    [request |-> [statement |-> s, id_empty |-> e],
     response |-> [status |-> 0, score |-> 0, verdict |-> "none",
                   reasoning |-> 0, evidence |-> 0]]

\* verify_statement(request)
VerifyStatement ==
    /\ unit.response.status = 0
    /\ LET s == unit.request.statement
       IN  unit' =
            [unit EXCEPT !.response =
                IF s.words = 0 \/ unit.request.id_empty
                THEN [status |-> 400, score |-> 0, verdict |-> "none",
                      reasoning |-> 0, evidence |-> 0]
                ELSE [status |-> 200,
                      score |-> Verdict(s).score,
                      verdict |-> Verdict(s).verdict,
                      reasoning |-> EnsureWords(ReasoningWords(s)),
                      evidence |-> 1]]
    /\ UNCHANGED <<loopVars, clockVars, wdVars, exit_cause>>

NextVerify == VerifyStatement

InitVerify ==
    /\ LoopInit
    /\ \E s \in Statements, e \in BOOLEAN : unit = VerifyInit(s, e)

SpecVerify == InitVerify /\ [][NextVerify]_vars

(* ---------------- validator._run: weights indexed by uid ---------------- *)

\* the values of metagraph.uids when they are not taken to be 0..n-1: lists
\* of distinct uids, any order, gaps allowed
UidLists ==
    {m \in UNION {[1..n -> 0..MaxUids] : n \in 0..MaxUids} :
        \A i, j \in DOMAIN m : i # j => m[i] # m[j]}

\* uids = [int(uid) ...]; weights = [0 for _ in metagraph.uids]; `scored` keeps
\* the success count of each position of uids as it was computed
WeightsInit(m) ==
    [w_pc |-> "uid", uids |-> m, weights |-> [i \in DOMAIN m |-> ZeroWeight],
     at |-> 0, scored |-> <<>>, exc |-> "none",
     submitted |-> [called |-> FALSE, uids |-> <<>>, weights |-> <<>>]]

\* one pass of `for uid in uids` that ends in weights[uid] = success / SAMPLES;
\* a uid that is no index of weights raises IndexError, which ends the cycle
\* in the handler of Exception
ScoreUid ==
    /\ unit.w_pc = "uid"
    /\ unit.at < Len(unit.uids)
    /\ \E k \in 0..SAMPLES :
        LET uid == unit.uids[unit.at + 1]
        IN  unit' = IF uid + 1 \in DOMAIN unit.weights
                    THEN [unit EXCEPT
                            !.weights[uid + 1] = ScoreOf(k),
                            !.scored = Append(@, k),
                            !.at = @ + 1]
                    ELSE [unit EXCEPT
                            !.exc = "IndexError", !.w_pc = "sleep"]
    /\ UNCHANGED <<loopVars, clockVars, wdVars, exit_cause>>

\* await sub.set_weights(weights=weights, uids=uids) after the loop
SetWeights ==
    /\ unit.w_pc = "uid"
    /\ unit.at = Len(unit.uids)
    /\ unit' = [unit EXCEPT
                  !.submitted = [called |-> TRUE, uids |-> unit.uids,
                                 weights |-> unit.weights],
                  !.w_pc = "done"]
    /\ UNCHANGED <<loopVars, clockVars, wdVars, exit_cause>>

NextWeights == ScoreUid \/ SetWeights

InitWeights == LoopInit /\ \E m \in UidLists : unit = WeightsInit(m)

SpecWeights == InitWeights /\ [][NextWeights]_vars

(* ---------------- pull_agent: where a file is written ---------------- *)

\* the keys of data["files"]: any string, here a path of up to MaxParts
\* components, with or without a leading separator
FileNames ==
    [abs : BOOLEAN,
     parts : UNION {[1..n -> {"..", "1", "f.py"}] : n \in 1..MaxParts}]

\* file_path = dir_path / filename with dir_path = Path(f"agents/{uid}/{block}/"):
\* an absolute right operand replaces the left one, ".." is kept as it is
FilePath(uid, block, filename) ==
    IF filename.abs
    THEN filename
    ELSE [abs |-> FALSE, parts |-> <<"agents", uid, block>> \o filename.parts]

\* the location the system opens for a path: ".." leaves the directory
\* reached so far, the root is its own parent, and a relative path may climb
\* above the working directory
RECURSIVE Resolve(_)
Resolve(p) ==
    IF p.parts = <<>>
    THEN p
    ELSE LET n == Len(p.parts)
             d == Resolve([abs |-> p.abs, parts |-> SubSeq(p.parts, 1, n - 1)])
             m == Len(d.parts)
         IN  IF p.parts[n] # ".."
             THEN [d EXCEPT !.parts = Append(@, p.parts[n])]
             ELSE IF m > 0 /\ d.parts[m] # ".."
             THEN [d EXCEPT !.parts = SubSeq(@, 1, m - 1)]
             ELSE IF d.abs
             THEN d
             ELSE [d EXCEPT !.parts = Append(@, "..")]

\* one pass of the loop over data["files"]: file_path.parent.mkdir(parents=True,
\* exist_ok=True), then open(file_path, "w") and write. The directories that
\* exist at the open are those above dir_path, dir_path itself, every prefix
\* of file_path.parent, and with `earlier` the directories of earlier pulls;
\* opening a directory raises, as may a mkdir or an open outside the working
\* directory, and the handler of Exception returns None; otherwise the file
\* is written and, the manifest having this one file, resolved_path returned
WriteFile ==
    /\ unit.w_pc = "files"
    /\ \E filename \in FileNames, denied \in BOOLEAN :
        LET file_path == FilePath(unit.uid, unit.block, filename)
            target == Resolve(file_path)
            made == {Resolve([file_path EXCEPT !.parts = SubSeq(@, 1, k)]) :
                        k \in 0..(Len(file_path.parts) - 1)}
            before == {[abs |-> FALSE, parts |-> s] :
                        s \in {<<>>, <<"agents">>, <<"agents", unit.uid>>,
                               <<"agents", unit.uid, unit.block>>}}
                      \cup (IF unit.earlier
                            THEN {[abs |-> FALSE, parts |-> <<"agents", u>>] :
                                     u \in {"0", "1"}}
                                 \cup {[abs |-> FALSE,
                                        parts |-> <<"agents", u, b>>] :
                                     u \in {"0", "1"}, b \in {"0", "1"}}
                            ELSE {})
            outside == target.abs
                       \/ (target.parts # <<>> /\ target.parts[1] = "..")
        IN  unit' = IF target \in made \cup before \/ (outside /\ denied)
                    THEN [unit EXCEPT !.filename = filename,
                                      !.returned = "None",
                                      !.w_pc = "returned"]
                    ELSE [unit EXCEPT !.filename = filename,
                                      !.file_path = target,
                                      !.wrote = TRUE,
                                      !.returned = "dir",
                                      !.w_pc = "returned"]
    /\ UNCHANGED <<loopVars, clockVars, wdVars, exit_cause>>

NextWrite == WriteFile

\* after dir_path.mkdir(parents=True, exist_ok=True) for identity uid and
\* reveal block `block`
InitWrite ==
    /\ LoopInit
    /\ \E u \in {"0", "1"}, b \in {"0", "1"}, e \in BOOLEAN :
        unit = [w_pc |-> "files", uid |-> u, block |-> b, earlier |-> e,
                filename |-> [abs |-> FALSE, parts |-> <<>>],
                file_path |-> [abs |-> FALSE, parts |-> <<>>],
                wrote |-> FALSE, returned |-> "pending"]

SpecWrite == InitWrite /\ [][NextWrite]_vars

(* ---------------- properties ---------------- *)
\* the retry sleep already taken
Slept == IF pc = "sleep" THEN RETRY_SLEEP - sleep_left ELSE 0
\* the identity at position idx has been scored and its container is still open
Scored == pc = "container_exit" /\ exc = "none"

C2_FailedIdentityScoresZero ==
    (pc = "set_weights" /\ idx > 0 /\ pull_result = NoPath)
        => weights[idx].num = 0

\* C3: a sandbox build or start failure of one identity never reaches the
\* handler that aborts the cycle.
C3_IdentityFailureDoesNotAbortCycle ==
    exc \in {"BuildError", "ReadinessTimeout"} => pc # "except"

\* C4: when some trial of an identity raised or returned no well-formed
\* verdict, the trial loop still ran all SAMPLES trials, no exception left
\* it, and the weight is (correct trials) / SAMPLES with the failed trial
\* counted as incorrect.
C4_BadTrialCountsIncorrect ==
    (pc = "container_exit" /\ had_bad) =>
        /\ exc = "none"
        /\ nInvoked = SAMPLES
        /\ sample_idx = SAMPLES
        /\ weights[idx] = Ratio(nCorrect, SAMPLES)
        /\ nCorrect < SAMPLES

\* 6 correct trials and 4 others, one of them raising or malformed
C4_Witness ==
    /\ pc = "container_exit"
    /\ had_bad
    /\ nInvoked = SAMPLES
    /\ weights[idx] = Ratio(6, SAMPLES)

\* C5: an open sandbox was built from the path pull_agent returned for the
\* identity being processed.
C5_SandboxBuiltFromPulledPayload ==
    container_src # NoPath =>
        /\ container_src = pull_result
        /\ container_src = PulledPath(CurUid)

\* C6: the process does not outlive the deadline (last heartbeat + timeout)
\* by more than timeout/3.
C6_WatchdogBoundedResponse ==
    Running => 3 * (hbAge - timeout) <= timeout

\* C7: the watchdog ends the process only if at some moment the heartbeat
\* was older than timeout/3.
C7_NoFalsePositive ==
    exit_cause = "watchdog" => ~gap_ok

\* the watchdog performs its check during the second identity of a cycle, all
\* heartbeats so far having been at most timeout/3 apart
C7_Witness ==
    /\ wd_pc = "check"
    /\ gap_ok
    /\ idx = 2
    /\ Running

\* C8: at every point where the loop can stall, the watchdog gets to check
\* at the latest one interval after the heartbeat became older than timeout.
StallPoints == {"initialize", "metagraph", "pull", "verify", "set_weights"}
C8_WatchdogRunsWhileLoopStalls ==
    (Running /\ pc \in StallPoints) => hbAge <= timeout + Interval(timeout)

\* C9: set_weights is called at most once per cycle, after every identity of
\* the list has been processed and with one weight per identity; a call that
\* fails sends the loop to the handler and a new cycle, whose weights are 0
\* for every identity not yet scored in it.
C9_Inv ==
    /\ sw_calls <= 1
    /\ pc = "set_weights" =>
        /\ sw_calls = 1
        /\ idx = Len(uids)
        /\ processed = Range(uids)
        /\ Len(weights) = Len(uids)
    /\ pc \in {"uid_start", "pull", "enter", "verify"} =>
        \A i \in DOMAIN weights :
            i > idx \/ (i = idx /\ pc # "uid_start") => weights[i] = ZeroWeight
C9_Step ==
    /\ pc = "set_weights" => pc' \in {"set_weights", "cycle_start", "except"}
    /\ pc = "cycle_start" /\ pc' # pc => sw_calls' = 0 /\ processed' = {}
    /\ pc = "metagraph" /\ pc' = "uid_start" =>
        \A i \in DOMAIN weights' : weights'[i] = ZeroWeight
C9_SetWeightsOncePerCycle == []C9_Inv /\ [][C9_Step]_vars

\* a set_weights call for two identities has failed and is not repeated
C9_Witness ==
    /\ pc = "sleep"
    /\ sw_calls = 1
    /\ Len(uids) = 2
    /\ processed = {0, 1}

\* C10: an exception that reaches the cycle handler neither ends the process
\* nor the loop: the handler sleeps and a new cycle starts; the process ends
\* only by the fatal connection failure or by the watchdog, and the watchdog
\* ends it only when silent time plus the retry sleep exceeded the timeout.
C10_Inv ==
    /\ exit_cause \in {"none", "watchdog", "subtensor_init"}
    /\ exit_cause = "watchdog" => busy + Slept > timeout
    /\ pc \in {"except", "sleep"} /\ exit_cause # "none" =>
        exit_cause = "watchdog"
C10_Step ==
    /\ exc = "none" /\ exc' # "none" => exit_cause' = "none"
    /\ pc = "except" => pc' \in {"except", "sleep"} /\ exit_cause' = "none"
    /\ pc = "sleep" => pc' \in {"sleep", "cycle_start"}
    /\ pc = "sleep" /\ pc' = "cycle_start" => exit_cause' = "none"
C10_CycleFailureIsRecoverable == []C10_Inv /\ [][C10_Step]_vars

\* a cycle failed at once, the retry sleep is over, the process is alive and
\* about to start the next cycle
C10_Witness ==
    /\ pc = "cycle_start"
    /\ hbAge = RETRY_SLEEP
    /\ busy = 0
    /\ Running

\* C13: identities are processed one after the other in the order of the
\* membership list: at most one sandbox is open, it is the one of the
\* identity being processed and only inside its with block; while identity
\* number idx is worked on exactly the identities before it in the list have
\* been processed to their end, and no sandbox is open when a pull begins.
C13_SequentialIdentities ==
    /\ Cardinality(open_sandboxes) <= 1
    /\ open_sandboxes # {} =>
        /\ pc \in {"verify", "container_exit"}
        /\ open_sandboxes = {CurUid}
    /\ pc \in {"pull", "enter", "verify", "container_exit"} =>
        /\ idx \in DOMAIN uids
        /\ processed = {uids[i] : i \in 1..(idx - 1)}
    /\ pc = "pull" => open_sandboxes = {}

\* the pull for the second identity of the list has begun: the first identity
\* was processed to its end and its sandbox is closed
C13_Witness ==
    /\ pc = "pull"
    /\ idx = 2
    /\ uids[1] \in processed
    /\ open_sandboxes = {}

\* C15: a cancellation stops both tasks: the loop ends only when cancelled
\* and with no sandbox open, once one of the two has ended the next thing
\* that happens is the end of the other, and the watchdog never ends the
\* process after the loop has ended.
C15_Inv ==
    /\ pc = "done" => cancelled /\ open_sandboxes = {}
    /\ wd_pc = "done" => cancelled
    /\ exit_cause = "watchdog" => pc # "done"
    /\ pc = "done" /\ wd_pc = "done" => Running
C15_Step ==
    /\ (pc = "done") # (wd_pc = "done") => pc' = "done" /\ wd_pc' = "done"
    /\ pc = "done" => pc' = "done" /\ UNCHANGED <<clockVars, exit_cause>>
    /\ open_sandboxes # {} /\ open_sandboxes' = {} => pc = "container_exit"
C15_CancelledAsAUnit == []C15_Inv /\ [][C15_Step]_vars

\* the validator was cancelled while a sandbox was open; the sandbox has
\* been closed and both tasks have ended
C15_Witness ==
    /\ open_at_cancel # {}
    /\ open_sandboxes = {}
    /\ pc = "done"
    /\ wd_pc = "done"

\* C14: when a call of run_miner_agent that attempted a build has ended, the
\* container of its uid is stopped and removed, and no container exists
\* when the next call starts.
C14_TeardownAlways ==
    m_pc = "idle" =>
        /\ built => m_uid \notin containers
        /\ containers = {}

\* C16: readiness polling makes at most max_retries liveness checks, goes on
\* to the invocations at the first check answered with 200, raises
\* TimeoutError exactly when max_retries checks have failed, a request error
\* counting as a failed check, and it always comes to an end.
C16_Inv ==
    /\ checks <= max_retries
    /\ m_pc = "poll" =>
        /\ checks = retry_i
        /\ health # "200"
        /\ m_exc = "none"
    /\ m_exc = "TimeoutError" => checks = max_retries /\ health # "200"
    /\ m_exc # "RequestException"
C16_Step ==
    m_pc = "poll" /\ m_pc' # "poll" =>
        \/ /\ m_pc' = "invoke"
           /\ health' = "200"
           /\ checks' = checks + 1
           /\ m_exc' = "none"
        \/ /\ m_pc' = "finally"
           /\ m_exc' = "TimeoutError"
           /\ checks' = max_retries
           /\ checks = max_retries
C16_Ends == (m_pc = "poll") ~> (m_pc # "poll")
C16_ReadinessPollingBounded == []C16_Inv /\ [][C16_Step]_vars /\ C16_Ends

\* the last of max_retries checks raised a request error like the ones
\* before it had failed, and the start has failed with TimeoutError
C16_Witness ==
    /\ m_exc = "TimeoutError"
    /\ checks = max_retries
    /\ health = "RequestException"
    /\ m_pc = "finally"

\* C11: the client is created on first use and cached: once initialize()
\* has succeeded the global stays the ready client, no further construction
\* or initialize() happens, and every call that returns hands out that one
\* client; when initialize() fails the process exits and no call returns
\* afterwards.
C11_Inv ==
    /\ SUBTENSOR = "None" <=> inits = 0
    /\ exit_cause \in {"none", "subtensor_init"}
    /\ \A c \in Callers : handed[c] # NoClient => handed[c].id = 1
C11_Step ==
    /\ SUBTENSOR = "ready" =>
        /\ SUBTENSOR' = "ready"
        /\ inits' = inits
        /\ \A c \in Callers :
            calls'[c] # calls[c] => handed'[c] = Client(inits, "ready")
    /\ \A c \in Callers :
        caller_pc[c] = "initialize" /\ caller_pc'[c] # "initialize" =>
            \/ SUBTENSOR' = "ready" /\ handed'[c] = Client(inits, "ready")
            \/ exit_cause' = "subtensor_init"
            \/ handed'[c] = handed[c]
    /\ exit_cause # "none" => UNCHANGED <<SUBTENSOR, unit>>
C11_LazyCachedOrFatal == []C11_Inv /\ [][C11_Step]_vars

\* after the first call initialised the client, both callers have called
\* again and hold the same ready client of the single construction
C11_Witness ==
    /\ SUBTENSOR = "ready"
    /\ inits = 1
    /\ calls[1] >= 2
    /\ calls[2] >= 1
    /\ handed[1] = Client(1, "ready")
    /\ handed[2] = Client(1, "ready")

\* C12: no caller of get_subtensor is handed the client before its
\* initialize() has completed successfully.
C12_NoClientBeforeInitialized ==
    \A c \in Callers : handed[c].state \in {"None", "ready"}

\* a bare identifier: no "/" and no scheme
BareId(g) ==
    /\ Len(g) >= 1
    /\ ~StartsWithHttp(g)
    /\ \A i \in DOMAIN g : g[i] # "/"
\* an api.github.com gist URL
Canonical(g) ==
    /\ Len(g) > Len(GistPrefix)
    /\ SubSeq(g, 1, Len(GistPrefix)) = GistPrefix
    /\ \A i \in (Len(GistPrefix) + 1)..Len(g) : g[i] # "/"

\* C18: normalizing the result of a normalization changes nothing; a
\* canonical gist URL is left as it is; a bare identifier becomes the gist
\* URL of that identifier, and stays it when normalized again.
C18_NormalizeIdempotent ==
    /\ n_pc = "twice" => twice = once
    /\ n_pc # "commit" /\ Canonical(committed) => once = committed
    /\ n_pc # "commit" /\ BareId(committed) =>
        once = GistPrefix \o committed

\* a gist page URL with a trailing slash was committed; it has become the
\* API URL of its last segment, and normalizing that again gave the same
C18_Witness ==
    /\ n_pc = "twice"
    /\ committed = <<"http", "/", "abc", "/">>
    /\ once = GistPrefix \o <<"abc">>
    /\ twice = once

\* C17: pull_agent returns a directory only if neither the manifest fetch nor
\* any file fetch failed in transport or was answered with a non-success
\* status, and an image is built only from a directory in which every file of
\* the manifest has its content.
C17_DownloadAllOrNothing ==
    /\ unit.returned = "dir" => ~unit.failed
    /\ unit.build_input = "dir" =>
        /\ Len(unit.written) = Len(unit.files)
        /\ \A i \in DOMAIN unit.written : unit.written[i] = "content"

\* the last verify_signature was handed what the last create_signature
\* returned
VerifiedCreated ==
    /\ unit.v_out # "none"
    /\ unit.c_out = "signature"
    /\ unit.v_sig = unit.sig
\* the address of the last verify_signature was a registered hotkey
VerifiedRegistered == unit.v_reg

\* C19: verify_signature(a, g, s) is true when a is registered and s is what
\* create_signature(g) returned for the wallet of address a, and it is not
\* true when s was created for another gist url or by another address.
C19_RoundTripNonTransferable ==
    VerifiedCreated =>
        /\ (/\ VerifiedRegistered
            /\ unit.v_addr = unit.wallet
            /\ unit.v_gist = unit.c_gist) => unit.v_out = "True"
        /\ (unit.v_addr # unit.wallet \/ unit.v_gist # unit.c_gist)
                => unit.v_out # "True"
C19_Witness ==
    /\ VerifiedCreated
    /\ VerifiedRegistered
    /\ unit.v_addr = unit.wallet
    /\ unit.v_gist = unit.c_gist
    /\ unit.v_out = "True"

\* C20: for a registered address and a hex signature that does not verify,
\* verify_signature returns false, and it raises only for a signature that
\* is no hex string.
C20_InvalidSignatureReturnsFalse ==
    (unit.v_out # "none" /\ VerifiedRegistered /\ FromHex(unit.v_sig).ok) =>
        /\ unit.v_out # "HTTPException"
        /\ ~KeypairVerify(unit.v_addr, <<unit.v_addr, ":", unit.v_gist>>,
                          FromHex(unit.v_sig).bytes) => unit.v_out = "False"

\* C21: verify_wallet_hotkey returns the address only when it is among the
\* hotkeys of a metagraph the verifier has, and raises HTTPException(401)
\* for every other address, also after a failed initialisation.
C21_MembershipCheck ==
    /\ unit.w_out = "returned" => unit.w_member
    /\ (unit.w_out # "none" /\ ~unit.w_member)
            => unit.w_out = "HTTPException401"

\* C22: every two calls of metagraph.sync() the verifier makes are more
\* than REFRESH_INTERVAL_SECONDS apart, whether the earlier one raised or
\* not.
C22_SyncAtMostOncePerInterval == unit.sync_gap_ok

\* C23: when the server answers the request with status 409,
\* send_submission returns None after a warning and raises nothing.
C23_RateLimitedReturnsNone ==
    (unit.posted /\ unit.response.status = 409) =>
        /\ unit.result.outcome = "None"
        /\ unit.result.exc = "none"
        /\ unit.result.log = "warning"
C23_Witness ==
    /\ unit.posted
    /\ unit.response.status = 409
    /\ unit.result.outcome = "None"

\* the outcome the response stands for: Accepted for a 2xx with a
\* submission_id and no rejection_reason, Rejected for every other 2xx,
\* RateLimited for 409, Error for every other status and for no response
Expected(r) ==
    IF r.status \in 200..299
    THEN IF r.body = "id" THEN "Accepted" ELSE "Rejected"
    ELSE IF r.status = 409 THEN "RateLimited"
    ELSE "Error"
\* the outcome the caller of send_submission sees
Seen ==
    IF unit.result.outcome = "raised" THEN "Error"
    ELSE IF unit.result.outcome = "None" THEN "RateLimited"
    ELSE IF unit.response.body = "id" THEN "Accepted"
    ELSE "Rejected"

\* C24: the caller of send_submission sees the outcome the response stands
\* for: Accepted, a rejection, RateLimited or an error.
C24_OneOutcomePerResponse == unit.posted => Seen = Expected(unit.response)

\* C25: when file_path yields no readable file, push ends with the
\* RuntimeError of add_files_for_gist before any network call was made, and
\* neither the gist upload nor the commitment takes place.
C25_NoFilesFailsBeforeNetwork ==
    (unit.q_pc = "done" /\ add_files_for_gist(unit.path) = -1) =>
        /\ unit.ended = "RuntimeError_files"
        /\ unit.net = <<>>
        /\ unit.html_url = 0
        /\ unit.commitment = 0

\* C26: for every statement that is not empty the /verify endpoint answers
\* with a reasoning of 100 to 500 words, a score in [0,1] (0 to 10 tenths),
\* one of the three verdicts and 1 to 10 evidence items.
C26_ResponseContract ==
    (/\ unit.response.status # 0
     /\ unit.request.statement.words > 0
     /\ ~unit.request.id_empty) =>
        /\ unit.response.status = 200
        /\ unit.response.reasoning \in 100..500
        /\ unit.response.score \in 0..10
        /\ unit.response.verdict \in {"corroborates", "refutes", "neutral"}
        /\ unit.response.evidence \in 1..10

\* C27: call_verify_api is called only in a call of run_miner_agent whose
\* build and start did not fail, whose last liveness check answered 200 and
\* whose container has not yet been stopped by the call.
C27_Inv ==
    m_pc = "invoke" =>
        /\ built
        /\ m_exc = "none"
        /\ health = "200"
        /\ m_uid \in containers
C27_Step ==
    n_results' > n_results => (m_pc = "invoke" /\ m_pc' = "invoke")
C27_SandboxLifecycle == []C27_Inv /\ [][C27_Step]_vars
C27_Witness ==
    /\ m_pc = "invoke"
    /\ n_results > 0
    /\ evals > 0

\* C28: whatever string was committed, the address the manifest is fetched
\* from is "https://api.github.com/gists/" followed by an identifier.
C28_FetchedAddressCanonical == n_pc # "commit" => Canonical(once)

\* C29: a cycle and the processing of an identity begin by setting the
\* heartbeat to the time of now (its age becomes 0); the watchdog leaves it
\* as it is; and it never moves back: its age changes only by becoming 0
\* or by the second that passes.
C29_Step ==
    /\ (pc = "cycle_start" /\ pc' # pc) => hbAge' = 0
    /\ idx' > idx => hbAge' = 0
    /\ (wd_pc' # wd_pc \/ exit_cause' # exit_cause) => hbAge' = hbAge
    /\ hbAge' # hbAge => (hbAge' = 0 \/ hbAge' = hbAge + 1)
C29_HeartbeatMonotonic == [][C29_Step]_vars
C29_Witness ==
    /\ pc = "pull"
    /\ idx = 2
    /\ hbAge = 0
    /\ busy = 0

\* C30: when nothing was revealed for the uid, pull_agent returns None and
\* has made no GET request, created no directory and written no file.
C30_NothingRevealedNoEffects ==
    (unit.commit \in {"None", "empty"}) =>
        /\ unit.returned = "None"
        /\ unit.fetches = 0
        /\ ~unit.mkdir
        /\ unit.written = <<>>
C30_Witness ==
    /\ unit.commit \in {"None", "empty"}
    /\ unit.p_pc = "done"
    /\ unit.build_input = "none"

\* C31: set_reveal_commitment is called only after the hotkey was found
\* registered and the POST of the gist was answered with 201; nothing is
\* committed when the hotkey is not registered or the POST was answered
\* otherwise; and what is committed is the html_url that POST returned.
C31_CommitAfterRegisteredAndUploaded ==
    LET commit_called == \E i \in DOMAIN unit.net : unit.net[i] = "commit"
    IN  /\ commit_called =>
                /\ unit.member = "registered"
                /\ unit.gist_answer = "201"
                /\ unit.html_url # 0
        /\ (unit.member # "registered" \/ unit.gist_answer # "201") =>
                unit.commitment = 0
        /\ unit.commitment # 0 => unit.commitment = unit.html_url
C31_Witness ==
    /\ unit.ended = "returned"
    /\ unit.commitment # 0
    /\ unit.commitment = unit.html_url
    /\ unit.net = <<"initialize", "metagraph", "post_gist", "commit">>

\* C32: when set_weights is called, weights is as long as uids, weights[i] is
\* the score computed in this cycle for uids[i], whatever list of uids the
\* metagraph gave (gaps and other orders included), and the uids submitted
\* are the list that was iterated.
C32_WeightsAlignedWithUids ==
    unit.submitted.called =>
        /\ Len(unit.submitted.weights) = Len(unit.submitted.uids)
        /\ unit.submitted.uids = unit.uids
        /\ \A i \in DOMAIN unit.submitted.uids :
               unit.submitted.weights[i].num * SAMPLES
                   = unit.scored[i] * unit.submitted.weights[i].den

\* C33: every file pull_agent writes for identity uid and reveal block b
\* lies inside agents/uid/b, whatever the file names of the manifest are
\* (separators and ".." included), so that no pull writes into the directory
\* of another (uid, block) pair.
C33_WritesStayInsideAgentDir ==
    unit.wrote =>
        /\ ~unit.file_path.abs
        /\ Len(unit.file_path.parts) > 3
        /\ SubSeq(unit.file_path.parts, 1, 3)
               = <<"agents", unit.uid, unit.block>>

\* C34: however the calls of get_subtensor interleave, the client is
\* constructed and its initialize() begun at most once in the process.
C34_ConstructedAtMostOnce ==
    /\ inits <= 1
    /\ \A c, d \in Callers :
           c # d => ~(caller_pc[c] = "initialize" /\ caller_pc[d] = "initialize")

\* one caller still awaits initialize() while the other has called and
\* returned, and there has been one construction
C34_Witness ==
    /\ caller_pc[1] = "initialize"
    /\ calls[2] >= 1
    /\ caller_pc[2] = "idle"
    /\ SUBTENSOR = "created"
    /\ inits = 1

TypeOK ==
    /\ pc \in {"cycle_start", "get_subtensor", "initialize", "metagraph",
               "uid_start", "pull", "enter", "verify", "container_exit",
               "set_weights", "except", "sleep"}
    /\ success \in 0..SAMPLES
    /\ sample_idx \in 0..SAMPLES
    /\ hbAge \in 0..MaxAge
    /\ wd_left \in 0..Interval(timeout)
    /\ sleep_left \in 0..RETRY_SLEEP
    /\ Len(weights) = Len(uids)
====
